---- MODULE Spec2Model ----
(***************************************************************************)
(* Model of the document-parser route (src/app/api/document-parser/       *)
(* route.ts) and of the upload page that calls it (src/app/page.tsx).      *)
(*                                                                         *)
(* One request is handled at a time.  The POST handler is cut at its       *)
(* await points and early returns; GET, PUT and DELETE are one step each.  *)
(* File names and error messages are sequences (of characters, of words)   *)
(* so that toLowerCase, endsWith and includes are computed.                *)
(***************************************************************************)
EXTENDS Integers, Sequences, FiniteSets, TLC

VARIABLES
    apiKey,        \* process.env.GOOGLE_GENERATIVE_AI_API_KEY is set
    pc,            \* position of the handler of the request in flight
    method,        \* HTTP method of the request in flight
    origin,        \* "client" (handleUpload) or "direct" (any other caller)
    body,          \* the request body
    file,          \* POST's local `file`
    validation,    \* POST's local `validation`
    result,        \* POST's local `result.object` (as enhanced)
    generated,     \* the object the model produced, before schema validation
    thrown,        \* the value caught by POST's catch block
    response,      \* the NextResponse returned
    trace,         \* the effectful operations the handler has performed
    inputFile,     \* the file held by the page's file input
    selectedFile,  \* page state
    isLoading,     \* page state
    error,         \* page state
    pageResult     \* page state `result`

vars == <<apiKey, pc, method, origin, body, file, validation, result, generated, thrown,
          response, trace, inputFile, selectedFile, isLoading, error, pageResult>>

serverVars == <<pc, method, origin, body, file, validation, result, generated, thrown,
                response, trace>>

pageVars == <<inputFile, selectedFile, isLoading, error, pageResult>>

-----------------------------------------------------------------------------
(* Program constants *)

MAX_FILE_SIZE == 10 * 1024 * 1024

ALLOWED_MIME_TYPES == {"application/pdf"}

SUPPORTED_FILE_EXTENSIONS == { <<".", "p", "d", "f">> }

MinTextLength == 10

-----------------------------------------------------------------------------
(* Strings *)

Upper == <<"A", "D", "F", "P">>
Lower == <<"a", "d", "f", "p">>

LowerChar(c) ==
    IF \E i \in 1..Len(Upper) : Upper[i] = c
    THEN Lower[CHOOSE i \in 1..Len(Upper) : Upper[i] = c]
    ELSE c

toLowerCase(s) == [i \in 1..Len(s) |-> LowerChar(s[i])]

endsWith(s, suffix) ==
    /\ Len(suffix) <= Len(s)
    /\ SubSeq(s, Len(s) - Len(suffix) + 1, Len(s)) = suffix

\* String.prototype.includes, on sequences
includes(s, part) ==
    \E i \in 0..(Len(s) - Len(part)) : SubSeq(s, i + 1, i + Len(part)) = part

RECURSIVE Join(_)
Join(words) ==
    IF words = <<>> THEN ""
    ELSE IF Len(words) = 1 THEN Head(words)
    ELSE Head(words) \o " " \o Join(Tail(words))

Digits == <<"0", "1", "2", "3", "4", "5", "6", "7", "8", "9">>

RECURSIVE NatToString(_)
NatToString(n) ==
    IF n < 10 THEN Digits[n + 1]
    ELSE NatToString(n \div 10) \o Digits[(n % 10) + 1]

-----------------------------------------------------------------------------
(* Inputs *)

FileNames ==
    { <<>>,
      <<"a", ".", "p", "d", "f">>,
      <<"A", ".", "P", "D", "F">>,
      <<"p", "d", "f">>,
      <<"a", ".", "p", "d", "f", ".", "t", "x", "t">>,
      <<"a", ".", "d", "o", "c", "x">>,
      <<"a", ".", "t", "x", "t">> }

FileSizes == {1, MAX_FILE_SIZE - 1, MAX_FILE_SIZE, MAX_FILE_SIZE + 1}

DocxMime == "application/vnd.openxmlformats-officedocument.wordprocessingml.document"

FileTypes == {"application/pdf", "application/x-pdf", DocxMime, "text/plain"}

Files == [kind : {"file"}, name : FileNames, size : FileSizes, type : FileTypes]

NoFile == [kind |-> "null"]

\* a form field that is text, not a file: formData.get returns a string
StringFields == [kind : {"string"}, value : {<<>>, <<"a", ".", "p", "d", "f">>}]

\* the files a user of the page picks
PageFiles ==
    [kind : {"file"},
     name : { <<"a", ".", "p", "d", "f">>, <<"a", ".", "d", "o", "c", "x">> },
     size : FileSizes,
     type : {"application/pdf", "text/plain"}]

FormEntries == Files \cup StringFields \cup {NoFile}

\* form = FALSE: the body is not form data and request.formData() throws
Bodies == [form : {TRUE}, pdf : FormEntries] \cup {[form |-> FALSE, pdf |-> NoFile]}

Messages ==
    { <<"fetch", "failed">>,
      <<"API", "key", "not", "valid">>,
      <<"quota", "exceeded">>,
      <<"rate", "limit", "reached">>,
      <<"request", "timeout">>,
      <<"token", "count", "exceeds", "limit">>,
      <<"API", "key", "quota", "timeout">>,
      <<"rate", "of", "token", "use", "over", "limit">> }

Errors ==
    [isError : {TRUE},
     name : {"AI_NoObjectGeneratedError", "AI_APICallError", "TypeError"},
     message : Messages]

\* a thrown value that is not an Error
NonErrors == {[isError |-> FALSE]}

Throwables == Errors \cup NonErrors

NoError == [isError |-> FALSE, none |-> TRUE]

\* lengths of extractedText in a schema-valid model object
TextLengths == {0, 1, MinTextLength - 1, MinTextLength, MinTextLength + 1}

NoResult == [none |-> TRUE]

TextQualities == {"excellent", "good", "fair", "poor"}

\* what the model may produce: values of the schema and values outside it
ModelObjects ==
    [extractedTextLength : TextLengths,
     metadata : [textQuality : TextQualities \cup {"unreadable"},
                 extractionConfidence : {-1, 0, 1, 2}]]

NoOutput == [none |-> TRUE]

\* the error generateObject throws for an object that fails the schema
SchemaMismatch ==
    [isError |-> TRUE,
     name |-> "AI_NoObjectGeneratedError",
     message |-> <<"response", "did", "not", "match", "schema">>]

NoResponse == [status |-> 0]

NoValidation == [none |-> TRUE]

-----------------------------------------------------------------------------
(* Helper functions of route.ts *)

SizeMessage ==
    "File size must be less than "
        \o NatToString((MAX_FILE_SIZE \div 1024) \div 1024) \o "MB"

\* the issues zod reports for fileValidationSchema, in key order
NameIssues(f) ==
    IF f.kind # "file" THEN <<"Required">>
    ELSE IF Len(f.name) < 1 THEN <<"Filename is required">>
    ELSE <<>>

SizeIssues(f) ==
    IF f.kind # "file" THEN <<"Required">>
    ELSE IF f.size > MAX_FILE_SIZE THEN <<SizeMessage>>
    ELSE <<>>

TypeIssues(f) ==
    IF f.kind # "file" THEN <<"Required">>
    ELSE IF f.type \notin ALLOWED_MIME_TYPES THEN <<"Only PDF files are supported">>
    ELSE <<>>

fileValidationSchema(f) == NameIssues(f) \o SizeIssues(f) \o TypeIssues(f)

\* mutant: the extension is compared without lower-casing the name
hasValidExtension_CaseSensitive(f) ==
    \E ext \in SUPPORTED_FILE_EXTENSIONS : endsWith(f.name, ext)

hasValidExtension(f) ==
    \E ext \in SUPPORTED_FILE_EXTENSIONS : endsWith(toLowerCase(f.name), ext)

validateFile(f) ==
    LET errors == fileValidationSchema(f) IN
    IF errors # <<>>
    THEN [isValid |-> FALSE, error |-> errors[1]]
    ELSE IF ~hasValidExtension(f)
    THEN [isValid |-> FALSE, error |-> "File must have a .pdf extension"]
    ELSE [isValid |-> TRUE]

createErrorResponse(message, status) ==
    [status |-> status, body |-> [success |-> FALSE, error |-> message]]

createSuccessResponse(data) ==
    [status |-> 200, body |-> [success |-> TRUE, data |-> data]]

\* mutant: the status is left at createErrorResponse's default
MethodNotAllowed_DefaultStatus ==
    [status |-> 400,
     body |-> [success |-> FALSE,
               error |-> "Method not allowed. Use POST to upload a PDF file."]]

MethodNotAllowed ==
    [status |-> 405,
     body |-> [success |-> FALSE,
               error |-> "Method not allowed. Use POST to upload a PDF file."]]

\* mutant: a timeout is answered with 504
catchResponse_GatewayTimeout(e) ==
    IF e.isError /\ e.name # "AI_NoObjectGeneratedError"
       /\ ~includes(e.message, <<"API", "key">>)
       /\ ~includes(e.message, <<"quota">>) /\ ~includes(e.message, <<"rate", "limit">>)
       /\ includes(e.message, <<"timeout">>)
    THEN createErrorResponse("Document processing timed out. Please try with a smaller file.", 504)
    ELSE createErrorResponse("An unexpected error occurred while processing the document", 500)

\* the catch block of POST
catchResponse(e) ==
    IF e.isError
    THEN IF e.name = "AI_NoObjectGeneratedError"
         THEN createErrorResponse("Failed to parse document structure. The document may be too complex or corrupted.", 422)
         ELSE IF includes(e.message, <<"API", "key">>)
         THEN createErrorResponse("API authentication failed", 401)
         ELSE IF includes(e.message, <<"quota">>) \/ includes(e.message, <<"rate", "limit">>)
         THEN createErrorResponse("Service temporarily unavailable. Please try again later.", 503)
         ELSE IF includes(e.message, <<"timeout">>)
         THEN createErrorResponse("Document processing timed out. Please try with a smaller file.", 408)
         ELSE IF includes(e.message, <<"token">>)
         THEN createErrorResponse("Document is too large to process. Please try with a smaller file.", 413)
         ELSE createErrorResponse("Processing failed: " \o Join(e.message), 500)
    ELSE createErrorResponse("An unexpected error occurred while processing the document", 500)

\* mutant: the confidence has no upper bound
documentParserSchema_NoMax(o) ==
    /\ o.metadata.textQuality \in TextQualities
    /\ o.metadata.extractionConfidence >= 0

\* src/lib/schema/document-parser.ts 8-105, the fields with constraints
documentParserSchema(o) ==
    /\ o.metadata.textQuality \in TextQualities
    /\ o.metadata.extractionConfidence >= 0
    /\ o.metadata.extractionConfidence <= 1

\* route.ts 140-148
enhancedResult(o, f) ==
    [extractedTextLength |-> o.extractedTextLength,
     metadata |-> [textQuality |-> o.metadata.textQuality,
                   extractionConfidence |-> o.metadata.extractionConfidence,
                   filename |-> f.name,
                   fileSize |-> f.size]]

-----------------------------------------------------------------------------
(* Reading the handler's history *)

Did(op) == \E i \in 1..Len(trace) : trace[i] = op

modelCalls == SelectSeq(trace, LAMBDA op : op = "generateObject")

-----------------------------------------------------------------------------

Init ==
    /\ apiKey \in BOOLEAN
    /\ pc = "idle"
    /\ method = "NONE"
    /\ origin = "none"
    /\ body = [form |-> FALSE, pdf |-> NoFile]
    /\ file = NoFile
    /\ validation = NoValidation
    /\ result = NoResult
    /\ generated = NoOutput
    /\ thrown = NoError
    /\ response = NoResponse
    /\ trace = <<>>
    /\ inputFile = NoFile
    /\ selectedFile = NoFile
    /\ isLoading = FALSE
    /\ error = "null"
    /\ pageResult = NoResponse

Begin(m, b, o) ==
    /\ pc = "idle"
    /\ pc' = "start"
    /\ method' = m
    /\ body' = b
    /\ origin' = o
    /\ file' = NoFile
    /\ validation' = NoValidation
    /\ result' = NoResult
    /\ generated' = NoOutput
    /\ thrown' = NoError
    /\ response' = NoResponse
    /\ trace' = <<>>

\* a request from any caller other than the page
Request ==
    /\ \E m \in {"POST", "GET", "PUT", "DELETE"}, b \in Bodies : Begin(m, b, "direct")
    /\ UNCHANGED <<apiKey, pageVars>>

Return(r) ==
    /\ response' = r
    /\ pc' = "done"

\* mutant: the missing key is not answered, the handler goes on
CheckApiKey_NoReturn ==
    /\ pc = "start" /\ method = "POST"
    /\ pc' = "formData"
    /\ UNCHANGED <<apiKey, method, origin, body, file, validation, result, generated, thrown, response, trace, pageVars>>

\* route.ts 77-79
CheckApiKey ==
    /\ pc = "start" /\ method = "POST"
    /\ IF ~apiKey
       THEN Return(createErrorResponse("Google Generative AI API key not configured", 500))
       ELSE pc' = "formData" /\ UNCHANGED response
    /\ UNCHANGED <<apiKey, method, origin, body, file, validation, result, generated, thrown, trace, pageVars>>

\* route.ts 82-88
ReadFormData ==
    /\ pc = "formData"
    /\ trace' = Append(trace, "formData")
    /\ IF ~body.form
       THEN /\ \E m \in Messages : thrown' = [isError |-> TRUE, name |-> "TypeError", message |-> m]
            /\ pc' = "catch"
            /\ UNCHANGED <<file, response>>
       ELSE /\ file' = body.pdf
            /\ UNCHANGED thrown
            /\ IF body.pdf.kind = "null" \/ (body.pdf.kind = "string" /\ body.pdf.value = <<>>)
               THEN Return(createErrorResponse("No PDF file provided. Please upload a PDF file.", 400))
               ELSE pc' = "validate" /\ UNCHANGED response
    /\ UNCHANGED <<apiKey, method, origin, body, validation, result, generated, pageVars>>

\* mutant: the validation result is not acted upon
Validate_NoReturn ==
    /\ pc = "validate"
    /\ trace' = Append(trace, "validateFile")
    /\ validation' = validateFile(file)
    /\ pc' = "arrayBuffer"
    /\ UNCHANGED <<apiKey, method, origin, body, file, result, generated, thrown, response, pageVars>>

\* route.ts 91-94
Validate ==
    /\ pc = "validate"
    /\ trace' = Append(trace, "validateFile")
    /\ validation' = validateFile(file)
    /\ IF ~validation'.isValid
       THEN Return(createErrorResponse(validation'.error, 400))
       ELSE pc' = "arrayBuffer" /\ UNCHANGED response
    /\ UNCHANGED <<apiKey, method, origin, body, file, result, generated, thrown, pageVars>>

\* route.ts 97
ReadArrayBuffer ==
    /\ pc = "arrayBuffer"
    /\ trace' = Append(trace, "arrayBuffer")
    /\ pc' = "generate"
    /\ UNCHANGED <<apiKey, method, origin, body, file, validation, result, generated, thrown, response, pageVars>>

\* route.ts 100-148: the model produces an object and generateObject checks
\* it against documentParserSchema, returning it or throwing
\* AI_NoObjectGeneratedError; or the call throws without an object
GenerateObject ==
    /\ pc = "generate"
    /\ trace' = Append(trace, "generateObject")
    /\ \/ \E o \in ModelObjects :
            /\ generated' = o
            /\ IF documentParserSchema(o)
               THEN /\ result' = enhancedResult(o, file)
                    /\ pc' = "check"
                    /\ UNCHANGED thrown
               ELSE /\ thrown' = SchemaMismatch
                    /\ pc' = "catch"
                    /\ UNCHANGED result
       \/ /\ \E e \in Throwables : thrown' = e
          /\ pc' = "catch"
          /\ UNCHANGED <<result, generated>>
    /\ UNCHANGED <<apiKey, method, origin, body, file, validation, response, pageVars>>

\* mutant: only the empty text is refused
CheckText_EmptyOnly ==
    /\ pc = "check"
    /\ IF result.extractedTextLength = 0
       THEN Return(createErrorResponse("Could not extract meaningful text from the PDF. The document may be empty, corrupted, or contain only images.", 422))
       ELSE Return(createSuccessResponse(result))
    /\ UNCHANGED <<apiKey, method, origin, body, file, validation, result, generated, thrown, trace, pageVars>>

\* route.ts 151-158
CheckText ==
    /\ pc = "check"
    /\ IF result.extractedTextLength = 0 \/ result.extractedTextLength < MinTextLength
       THEN Return(createErrorResponse("Could not extract meaningful text from the PDF. The document may be empty, corrupted, or contain only images.", 422))
       ELSE Return(createSuccessResponse(result))
    /\ UNCHANGED <<apiKey, method, origin, body, file, validation, result, generated, thrown, trace, pageVars>>

\* route.ts 160-196
Catch ==
    /\ pc = "catch"
    /\ Return(catchResponse(thrown))
    /\ UNCHANGED <<apiKey, method, origin, body, file, validation, result, generated, thrown, trace, pageVars>>

\* route.ts 200-205
GET ==
    /\ pc = "start" /\ method = "GET"
    /\ Return(MethodNotAllowed)
    /\ UNCHANGED <<apiKey, method, origin, body, file, validation, result, generated, thrown, trace, pageVars>>

\* route.ts 207-212
PUT ==
    /\ pc = "start" /\ method = "PUT"
    /\ Return(MethodNotAllowed)
    /\ UNCHANGED <<apiKey, method, origin, body, file, validation, result, generated, thrown, trace, pageVars>>

\* route.ts 214-219
DELETE ==
    /\ pc = "start" /\ method = "DELETE"
    /\ Return(MethodNotAllowed)
    /\ UNCHANGED <<apiKey, method, origin, body, file, validation, result, generated, thrown, trace, pageVars>>

\* the handler's locals are gone once its response has left
Idle ==
    /\ pc' = "idle"
    /\ method' = "NONE"
    /\ origin' = "none"
    /\ body' = [form |-> FALSE, pdf |-> NoFile]
    /\ file' = NoFile
    /\ validation' = NoValidation
    /\ result' = NoResult
    /\ generated' = NoOutput
    /\ thrown' = NoError
    /\ response' = NoResponse
    /\ trace' = <<>>

\* the response of a direct request is delivered
Deliver ==
    /\ pc = "done" /\ origin = "direct"
    /\ Idle
    /\ UNCHANGED <<apiKey, pageVars>>

-----------------------------------------------------------------------------
(* The page, src/app/page.tsx.  Its events are taken between requests: the  *)
(* page and a direct caller share no state.                                *)

maxSize == 10 * 1024 * 1024

\* page.tsx 19-43; the input is disabled while loading (page.tsx 118)
handleFileSelect ==
    /\ pc = "idle" /\ ~isLoading
    /\ \E f \in PageFiles :
        /\ inputFile' = f
        /\ pageResult' = NoResponse
        /\ IF f.type # "application/pdf"
           THEN error' = "Please select a PDF file" /\ selectedFile' = NoFile
           ELSE IF f.size > maxSize
           THEN error' = "File size must be less than 10MB" /\ selectedFile' = NoFile
           ELSE error' = "null" /\ selectedFile' = f
    /\ UNCHANGED <<apiKey, isLoading, serverVars>>

\* page.tsx 45-59; the button is disabled without a file or while loading
handleUpload ==
    /\ selectedFile # NoFile /\ ~isLoading
    /\ isLoading' = TRUE
    /\ error' = "null"
    /\ pageResult' = NoResponse
    /\ Begin("POST", [form |-> TRUE, pdf |-> selectedFile], "client")
    /\ UNCHANGED <<apiKey, inputFile, selectedFile>>

\* page.tsx 61-66 and 70-72
UploadResolved ==
    /\ pc = "done" /\ origin = "client"
    /\ pageResult' = response
    /\ error' = IF ~response.body.success
                THEN IF response.body.error = "" THEN "Upload failed" ELSE response.body.error
                ELSE "null"
    /\ isLoading' = FALSE
    /\ Idle
    /\ UNCHANGED <<apiKey, inputFile, selectedFile>>

\* page.tsx 67-72: fetch rejects
UploadRejected ==
    /\ pc = "done" /\ origin = "client"
    /\ error' = "Network error. Please try again."
    /\ isLoading' = FALSE
    /\ Idle
    /\ UNCHANGED <<apiKey, inputFile, selectedFile, pageResult>>

\* page.tsx 75-84; the button shows with a file or a result, and is
\* disabled while loading
handleReset ==
    /\ pc = "idle" /\ ~isLoading
    /\ selectedFile # NoFile \/ pageResult # NoResponse
    /\ selectedFile' = NoFile
    /\ pageResult' = NoResponse
    /\ error' = "null"
    /\ inputFile' = NoFile
    /\ UNCHANGED <<apiKey, isLoading, serverVars>>

Next ==
    \/ Request
    \/ CheckApiKey
    \/ ReadFormData
    \/ Validate
    \/ ReadArrayBuffer
    \/ GenerateObject
    \/ CheckText
    \/ Catch
    \/ GET
    \/ PUT
    \/ DELETE
    \/ Deliver
    \/ handleFileSelect
    \/ handleUpload
    \/ UploadResolved
    \/ UploadRejected
    \/ handleReset

Spec == Init /\ [][Next]_vars

\* the steps of the POST handler: each continues once the call it awaits
\* has settled
HandlerStep ==
    \/ CheckApiKey
    \/ ReadFormData
    \/ Validate
    \/ ReadArrayBuffer
    \/ GenerateObject
    \/ CheckText
    \/ Catch

FairSpec == Spec /\ WF_vars(HandlerStep)

-----------------------------------------------------------------------------
(* Reading a finished request *)

Finished(m) == pc = "done" /\ method = m

Success == response.body.success

HasData == "data" \in DOMAIN response.body

\* the lower-cased name ends with ".pdf", written out character by character
EndsWithDotPdf(n) ==
    /\ Len(n) >= 4
    /\ n[Len(n) - 3] = "."
    /\ n[Len(n) - 2] \in {"p", "P"}
    /\ n[Len(n) - 1] \in {"d", "D"}
    /\ n[Len(n)] \in {"f", "F"}

\* the request carries no 'pdf' field
FieldMissing == body.pdf.kind = "null"

\* the request carries a 'pdf' entry that validateFile rejects
FileInvalid ==
    /\ body.pdf.kind # "null"
    /\ ~( /\ body.pdf.kind = "file"
          /\ Len(body.pdf.name) >= 1
          /\ body.pdf.size <= MAX_FILE_SIZE
          /\ body.pdf.type = "application/pdf"
          /\ EndsWithDotPdf(body.pdf.name) )

-----------------------------------------------------------------------------
(* C1 *)

\* C1 as stated: every POST request whose 'pdf' field is missing or whose
\* file fails validation is answered with status 400 and success = false,
\* and the model is never called for it.
C1_AsStated ==
    Finished("POST") /\ (FieldMissing \/ FileInvalid)
        => /\ response.status = 400
           /\ ~Success
           /\ modelCalls = <<>>

\* C1, amended: generateObject is called only after the file is present and
\* validateFile returned isValid = true; no POST request whose 'pdf' field is
\* missing or whose file fails validation ever reaches the model; and when
\* the API key is configured and the body parses as form data, such a request
\* is answered with status 400 and success = false.
C1_ModelOnlyAfterValidation ==
    /\ Did("generateObject")
        => /\ file.kind = "file"
           /\ validation = [isValid |-> TRUE]
           /\ \E i, j \in 1..Len(trace) :
                i < j /\ trace[i] = "validateFile" /\ trace[j] = "generateObject"
    /\ method = "POST" /\ (FieldMissing \/ FileInvalid) => modelCalls = <<>>
    /\ Finished("POST") /\ apiKey /\ body.form /\ (FieldMissing \/ FileInvalid)
        => /\ response.status = 400
           /\ ~Success
           /\ ~HasData

C1_Witness ==
    /\ Finished("POST") /\ apiKey /\ body.form
    /\ body.pdf.kind = "file" /\ FileInvalid
    /\ Did("validateFile")
    /\ response.status = 400

-----------------------------------------------------------------------------
(* C2 *)

\* C2: a file is accepted only if its size is strictly less than 10 MB, by
\* the server's validateFile and by the page's handleFileSelect alike; a file
\* of exactly 10 * 1024 * 1024 bytes is rejected.
C2_StrictlyLessThan10MB ==
    /\ validation = [isValid |-> TRUE] => file.size < 10 * 1024 * 1024
    /\ selectedFile # NoFile => selectedFile.size < 10 * 1024 * 1024

-----------------------------------------------------------------------------
(* C3 *)

\* C3: validateFile accepts a file if and only if its name is non-empty, its
\* size is within the limit, its MIME type is exactly 'application/pdf' and
\* its lower-cased name ends with '.pdf'; a file failing the MIME check alone
\* is rejected with 'Only PDF files are supported', a file failing the
\* extension check alone with 'File must have a .pdf extension'.
C3_ValidateFileAccepts ==
    Did("validateFile") /\ file.kind = "file" =>
        LET nameOk == Len(file.name) >= 1
            sizeOk == file.size <= MAX_FILE_SIZE
            typeOk == file.type = "application/pdf"
            extOk  == EndsWithDotPdf(file.name)
        IN  /\ validation.isValid <=> (nameOk /\ sizeOk /\ typeOk /\ extOk)
            /\ nameOk /\ sizeOk /\ extOk /\ ~typeOk
                => validation = [isValid |-> FALSE, error |-> "Only PDF files are supported"]
            /\ nameOk /\ sizeOk /\ typeOk /\ ~extOk
                => validation = [isValid |-> FALSE, error |-> "File must have a .pdf extension"]

C3_Witness ==
    /\ Did("validateFile")
    /\ file.kind = "file"
    /\ file.name = <<"A", ".", "P", "D", "F">>
    /\ file.size = MAX_FILE_SIZE - 1
    /\ file.type = "application/pdf"
    /\ validation = [isValid |-> TRUE]

-----------------------------------------------------------------------------
(* C4 *)

IsDocx(f) ==
    f.kind = "file" /\ f.name = <<"a", ".", "d", "o", "c", "x">> /\ f.type = DocxMime

IsTxt(f) ==
    f.kind = "file" /\ f.name = <<"a", ".", "t", "x", "t">> /\ f.type = "text/plain"

\* C4: an uploaded DOCX or TXT file passes intake validation and reaches text
\* extraction just as a PDF does.
C4_DocxAndTxtAccepted ==
    /\ Did("validateFile") /\ (IsDocx(file) \/ IsTxt(file)) /\ file.size < MAX_FILE_SIZE
        => validation = [isValid |-> TRUE]
    /\ Finished("POST") /\ apiKey /\ (IsDocx(file) \/ IsTxt(file)) /\ file.size < MAX_FILE_SIZE
        => Did("generateObject")

-----------------------------------------------------------------------------
(* C5 *)

\* C5: when the API key is not configured, every POST request is answered
\* with status 500, success = false and the error 'Google Generative AI API
\* key not configured', before the form data is read, before any file
\* validation and without calling the model, whatever the body is.
C5_NoApiKey ==
    /\ method = "POST" /\ ~apiKey
        => /\ trace = <<>>
           /\ pc \in {"start", "done"}
           /\ file = NoFile /\ validation = NoValidation
    /\ Finished("POST") /\ ~apiKey
        => response = [status |-> 500,
                       body |-> [success |-> FALSE,
                                 error |-> "Google Generative AI API key not configured"]]

C5_Witness ==
    /\ Finished("POST") /\ ~apiKey
    /\ body.form /\ body.pdf.kind = "file" /\ ~FileInvalid
    /\ response.status = 500

-----------------------------------------------------------------------------
(* C6 *)

\* C6: GET, PUT and DELETE always return status 405 with success = false and
\* the error 'Method not allowed. Use POST to upload a PDF file.', and never
\* call the model or produce data.
C6_MethodNotAllowed ==
    /\ method \in {"GET", "PUT", "DELETE"} => trace = <<>> /\ result = NoResult
    /\ pc = "done" /\ method \in {"GET", "PUT", "DELETE"}
        => /\ response.status = 405
           /\ response.body = [success |-> FALSE,
                               error |-> "Method not allowed. Use POST to upload a PDF file."]

C6_Witness ==
    /\ Finished("DELETE")
    /\ apiKey /\ body.form /\ body.pdf.kind = "file" /\ ~FileInvalid
    /\ response.status = 405

-----------------------------------------------------------------------------
(* C7 *)

\* C7: POST returns status 200 with success = true only when the model's
\* extractedText is non-empty and at least 10 characters long; a schema-valid
\* object whose extractedText is empty or shorter than 10 characters is
\* answered with status 422, success = false and no data.
C7_MeaningfulText ==
    /\ Finished("POST") /\ (response.status = 200 \/ Success)
        => /\ result # NoResult
           /\ result.extractedTextLength > 0
           /\ result.extractedTextLength >= 10
    /\ Finished("POST") /\ result # NoResult /\ result.extractedTextLength < 10
        => /\ response.status = 422
           /\ ~Success
           /\ ~HasData

C7_Witness ==
    /\ Finished("POST")
    /\ result # NoResult /\ result.extractedTextLength = 9
    /\ response.status = 422

-----------------------------------------------------------------------------
(* C8 *)

\* C8: processing one document runs three remote-model calls in sequence
\* (document parsing, language detection, translation), each starting only
\* after the previous one has returned.
C8_ThreeModelCalls ==
    Finished("POST") /\ response.status = 200 => Len(modelCalls) = 3

-----------------------------------------------------------------------------
(* C10 *)

\* C10: the quality retry loop terminates: a translation is retried at most 3
\* times, so a document that has been processed has reached the Output
\* Formatter or a fallback.
C10_ReachesFormatterOrFallback ==
    Finished("POST") /\ response.status = 200
        => /\ Len(SelectSeq(trace, LAMBDA op : op = "retryTranslation")) <= 3
           /\ Did("outputFormatter") \/ Did("fallback")

-----------------------------------------------------------------------------
(* C12 *)

\* the object satisfies the constraints documentParserSchema puts on
\* metadata.extractionConfidence and metadata.textQuality
Conforms(o) ==
    /\ 0 <= o.metadata.extractionConfidence
    /\ o.metadata.extractionConfidence <= 1
    /\ o.metadata.textQuality \in {"excellent", "good", "fair", "poor"}

\* C12: POST returns data only for a model object that conforms to
\* documentParserSchema (extractionConfidence between 0 and 1 inclusive,
\* textQuality one of excellent/good/fair/poor), and the data carries that
\* object's values; a model output that fails the schema is thrown as
\* AI_NoObjectGeneratedError, never yields status 200 and is answered 422.
C12_SchemaValidated ==
    /\ Finished("POST") /\ (HasData \/ response.status = 200)
        => /\ generated # NoOutput
           /\ Conforms(generated)
           /\ Conforms(response.body.data)
           /\ response.body.data.metadata.extractionConfidence
                = generated.metadata.extractionConfidence
           /\ response.body.data.metadata.textQuality = generated.metadata.textQuality
    /\ result # NoResult => Conforms(result)
    /\ Finished("POST") /\ generated # NoOutput /\ ~Conforms(generated)
        => /\ thrown.isError /\ thrown.name = "AI_NoObjectGeneratedError"
           /\ response.status = 422
           /\ ~Success
           /\ ~HasData

C12_Witness ==
    /\ Finished("POST")
    /\ generated # NoOutput
    /\ generated.metadata.extractionConfidence = 2
    /\ generated.metadata.textQuality = "good"
    /\ generated.extractedTextLength = 11
    /\ response.status = 422

-----------------------------------------------------------------------------
(* C13 *)

ErrorStatuses == {400, 401, 408, 413, 422, 500, 503}

Envelope ==
    /\ response.status = 200 <=> Success
    /\ Success <=> HasData
    /\ response.status # 200
        => /\ ~Success
           /\ "error" \in DOMAIN response.body
           /\ Len(response.body.error) > 0
           /\ ~HasData
           /\ response.status \in ErrorStatuses

\* C13: every execution of the POST handler ends by returning exactly one
\* response and never throws: no response exists before the handler is
\* done, every started POST reaches done, and the response then obeys the
\* envelope (status 200 iff success iff data present; otherwise success =
\* false, a non-empty error, no data and a status in ErrorStatuses).
C13_OneResponseInEnvelope ==
    /\ [](method = "POST" /\ pc # "done" => response = NoResponse)
    /\ [](Finished("POST") => response # NoResponse /\ Envelope)
    /\ ((pc = "start" /\ method = "POST") ~> Finished("POST"))

C13_Witness ==
    /\ Finished("POST")
    /\ thrown.isError /\ thrown.name = "AI_APICallError"
    /\ thrown.message = <<"request", "timeout">>
    /\ response.status = 408

====
